---- MODULE Spec2Model ----
(***************************************************************************)
(* Funnel trend engine of the funnel-trends-persons query                  *)
(* (TestFunnelTrendsPersons snapshots).  The query is modelled subquery by *)
(* subquery, innermost first.  Rows are records that keep the column names *)
(* of the SQL; a table is a sequence of rows.                              *)
(*                                                                         *)
(* Time is counted in ticks; a day is DayLen ticks.  The events table is   *)
(* sorted ascending by timestamp; the order of rows that share a timestamp *)
(* is arbitrary, and the window functions (ORDER BY timestamp DESC, ROWS   *)
(* frame) see the rows in the reverse of that order.                       *)
(***************************************************************************)
EXTENDS Integers, Sequences, FiniteSets

VARIABLES events, rows, window, period, evaluated, cohort, pc,
          predicate, selected, persons, joined, result, has_more,
          elapsed, outcome,
          isSupportFormOpen, sendSupportRequest, hashParams, urlPending, inflight, toast,
          filters, localFilters, effects, updates

vars == <<events, rows, window, period, evaluated, cohort, pc,
          predicate, selected, persons, joined, result, has_more,
          elapsed, outcome,
          isSupportFormOpen, sendSupportRequest, hashParams, urlPending, inflight, toast,
          filters, localFilters, effects, updates>>

\* the state of the cohort subquery, and the state of the actor selection
cohortVars == <<events, rows, window, period, evaluated, cohort>>

selectorVars == <<predicate, selected, persons, joined, result, has_more>>

\* the clock and the outcome of the query, the support form, the recording
\* filters
queryVars == <<elapsed, outcome>>

supportVars ==
    <<isSupportFormOpen, sendSupportRequest, hashParams, urlPending, inflight, toast>>

filterVars == <<filters, localFilters, effects, updates>>

\* ---- bounds -------------------------------------------------------------
MaxEvents == 3
MaxT == 2
MaxW == 2
DayLen == 2
MaxPersons == 3
MaxCreated == 1
MaxQualifying == 102
MaxSignalRows == 2
MaxPosts == 1
MaxRefs == 6

\* ---- value domains ------------------------------------------------------
NULL == -1
NumSteps == 3
Actors == {1, 2}
EventNames == {"step one", "step two", "step three"}
Timestamps == 0..MaxT
Windows == 0..MaxW

\* ---- SQL scalar functions (NULL propagates, booleans are 1/0) ------------
ifNull(x, d) == IF x = NULL THEN d ELSE x

isNotNull(x) == IF x = NULL THEN 0 ELSE 1

lessOrEquals(a, b) == IF a = NULL \/ b = NULL THEN NULL ELSE IF a <= b THEN 1 ELSE 0

less(a, b) == IF a = NULL \/ b = NULL THEN NULL ELSE IF a < b THEN 1 ELSE 0

plus(a, b) == IF a = NULL \/ b = NULL THEN NULL ELSE a + b

dateDiff(a, b) == IF a = NULL \/ b = NULL THEN NULL ELSE b - a

toStartOfDay(t) == (t \div DayLen) * DayLen

MinOf(S) == CHOOSE x \in S : \A y \in S : x <= y

MaxOf(S) == CHOOSE x \in S : \A y \in S : x >= y

\* ---- innermost subquery: step signals per event --------------------------
\* if(equals(e.event, '<name>'), 1, 0) AS step_i
stepSignal(e, name) == IF e.event = name THEN 1 ELSE 0

\* One row of the innermost SELECT: step_i and latest_i = timestamp if the
\* signal is set, else NULL.
SignalRow(e) ==
    [aggregation_target |-> e.actor,
     timestamp |-> e.timestamp,
     step_0 |-> stepSignal(e, "step one"),
     latest_0 |-> IF ifNull(stepSignal(e, "step one"), 0) = 1 THEN e.timestamp ELSE NULL,
     step_1 |-> stepSignal(e, "step two"),
     latest_1 |-> IF ifNull(stepSignal(e, "step two"), 0) = 1 THEN e.timestamp ELSE NULL,
     step_2 |-> stepSignal(e, "step three"),
     latest_2 |-> IF ifNull(stepSignal(e, "step three"), 0) = 1 THEN e.timestamp ELSE NULL]

\* WHERE ... in(e.event, tuple(...)) AND or(step_0 = 1, step_1 = 1, step_2 = 1)
KeepEvent(e) ==
    /\ e.event \in {"step one", "step three", "step two"}
    /\ \/ ifNull(stepSignal(e, "step one"), 0) = 1
       \/ ifNull(stepSignal(e, "step two"), 0) = 1
       \/ ifNull(stepSignal(e, "step three"), 0) = 1

SignalRows(ev) ==
    LET kept == SelectSeq(ev, KeepEvent)
    IN  [k \in 1..Len(kept) |-> SignalRow(kept[k])]

\* ---- window function -----------------------------------------------------
\* min(col) OVER (PARTITION BY aggregation_target ORDER BY timestamp DESC
\*                ROWS BETWEEN UNBOUNDED PRECEDING AND 0 PRECEDING)
\* The frame of row k is row k and the rows that precede it in descending
\* order, that is rows k..Len(rows) of the ascending table, of the same
\* partition.  min skips NULL and is NULL on an all-NULL frame.
\* Variant: the frame is the whole partition (UNBOUNDED FOLLOWING as well).
Frame_WholePartition(tbl, k) ==
    {j \in 1..Len(tbl) : tbl[j].aggregation_target = tbl[k].aggregation_target}

\* Variant: PARTITION BY aggregation_target is missing.
Frame_NoPartition(tbl, k) == k..Len(tbl)

\* Variant: the frame ends at 1 PRECEDING, the current row is left out.
Frame_ExcludeCurrent(tbl, k) ==
    {j \in (k + 1)..Len(tbl) : tbl[j].aggregation_target = tbl[k].aggregation_target}

Frame(tbl, k) ==
    {j \in k..Len(tbl) : tbl[j].aggregation_target = tbl[k].aggregation_target}

windowMin(tbl, k, col) ==
    LET S == {tbl[j][col] : j \in {i \in Frame(tbl, k) : tbl[i][col] # NULL}}
    IN  IF S = {} THEN NULL ELSE MinOf(S)

\* ---- first resolution: running min of latest_1 and latest_2 --------------
ResolveFirst(tbl) ==
    [k \in 1..Len(tbl) |->
        [tbl[k] EXCEPT !.latest_1 = windowMin(tbl, k, "latest_1"),
                        !.latest_2 = windowMin(tbl, k, "latest_2")]]

\* ---- if(ifNull(less(latest_2, latest_1), 0), NULL, latest_2) --------------
\* Variant: a latest_2 before latest_1 is kept.
dropOutOfOrder_Keep(r) == r.latest_2

dropOutOfOrder(r) ==
    IF ifNull(less(r.latest_2, r.latest_1), 0) = 1 THEN NULL ELSE r.latest_2

DropOutOfOrder(tbl) ==
    [k \in 1..Len(tbl) |-> [tbl[k] EXCEPT !.latest_2 = dropOutOfOrder(tbl[k])]]

\* ---- second resolution: running min of latest_2 ---------------------------
ResolveSecond(tbl) ==
    [k \in 1..Len(tbl) |-> [tbl[k] EXCEPT !.latest_2 = windowMin(tbl, k, "latest_2")]]

\* ---- depth evaluation -----------------------------------------------------
\* Variant: step 2 is admitted within W of step 1 instead of the entrance.
steps_PreviousAnchor(r, W) ==
    IF /\ ifNull(lessOrEquals(r.latest_0, r.latest_1), 0) = 1
       /\ ifNull(lessOrEquals(r.latest_1, plus(r.latest_0, W)), 0) = 1
       /\ ifNull(lessOrEquals(r.latest_1, r.latest_2), 0) = 1
       /\ ifNull(lessOrEquals(r.latest_2, plus(r.latest_1, W)), 0) = 1
    THEN 3
    ELSE IF /\ ifNull(lessOrEquals(r.latest_0, r.latest_1), 0) = 1
            /\ ifNull(lessOrEquals(r.latest_1, plus(r.latest_0, W)), 0) = 1
         THEN 2
         ELSE 1

\* Variant: depth 3 is decided on latest_2 alone.
steps_IgnoreStep1(r, W) ==
    IF ifNull(lessOrEquals(r.latest_2, plus(r.latest_0, W)), 0) = 1
    THEN 3
    ELSE IF /\ ifNull(lessOrEquals(r.latest_0, r.latest_1), 0) = 1
            /\ ifNull(lessOrEquals(r.latest_1, plus(r.latest_0, W)), 0) = 1
         THEN 2
         ELSE 1

\* Variant: the depth counts the steps after the entrance only.
steps_ZeroBased(r, W) ==
    IF /\ ifNull(lessOrEquals(r.latest_0, r.latest_1), 0) = 1
       /\ ifNull(lessOrEquals(r.latest_1, plus(r.latest_0, W)), 0) = 1
       /\ ifNull(lessOrEquals(r.latest_1, r.latest_2), 0) = 1
       /\ ifNull(lessOrEquals(r.latest_2, plus(r.latest_0, W)), 0) = 1
    THEN 2
    ELSE IF /\ ifNull(lessOrEquals(r.latest_0, r.latest_1), 0) = 1
            /\ ifNull(lessOrEquals(r.latest_1, plus(r.latest_0, W)), 0) = 1
         THEN 1
         ELSE 0

\* Variant: the window comparisons have their operands swapped.
steps_OutsideWindow(r, W) ==
    IF /\ ifNull(lessOrEquals(r.latest_0, r.latest_1), 0) = 1
       /\ ifNull(lessOrEquals(plus(r.latest_0, W), r.latest_1), 0) = 1
       /\ ifNull(lessOrEquals(r.latest_1, r.latest_2), 0) = 1
       /\ ifNull(lessOrEquals(plus(r.latest_0, W), r.latest_2), 0) = 1
    THEN 3
    ELSE IF /\ ifNull(lessOrEquals(r.latest_0, r.latest_1), 0) = 1
            /\ ifNull(lessOrEquals(plus(r.latest_0, W), r.latest_1), 0) = 1
         THEN 2
         ELSE 1

\* if(and(l0 <= l1, l1 <= l0 + W, l1 <= l2, l2 <= l0 + W), 3,
\*    if(and(l0 <= l1, l1 <= l0 + W), 2, 1)) AS steps
steps(r, W) ==
    IF /\ ifNull(lessOrEquals(r.latest_0, r.latest_1), 0) = 1
       /\ ifNull(lessOrEquals(r.latest_1, plus(r.latest_0, W)), 0) = 1
       /\ ifNull(lessOrEquals(r.latest_1, r.latest_2), 0) = 1
       /\ ifNull(lessOrEquals(r.latest_2, plus(r.latest_0, W)), 0) = 1
    THEN 3
    ELSE IF /\ ifNull(lessOrEquals(r.latest_0, r.latest_1), 0) = 1
            /\ ifNull(lessOrEquals(r.latest_1, plus(r.latest_0, W)), 0) = 1
         THEN 2
         ELSE 1

\* Variant: the duration of step 1 is admitted strictly inside the window.
step_1_conversion_time_Strict(r, W) ==
    IF /\ isNotNull(r.latest_1) = 1
       /\ ifNull(less(r.latest_1, plus(r.latest_0, W)), 0) = 1
    THEN dateDiff(r.latest_0, r.latest_1)
    ELSE NULL

step_1_conversion_time(r, W) ==
    IF /\ isNotNull(r.latest_1) = 1
       /\ ifNull(lessOrEquals(r.latest_1, plus(r.latest_0, W)), 0) = 1
    THEN dateDiff(r.latest_0, r.latest_1)
    ELSE NULL

\* Variant: the duration of step 2 is admitted within W of the entrance.
step_2_conversion_time_EntranceAnchor(r, W) ==
    IF /\ isNotNull(r.latest_2) = 1
       /\ ifNull(lessOrEquals(r.latest_2, plus(r.latest_0, W)), 0) = 1
    THEN dateDiff(r.latest_1, r.latest_2)
    ELSE NULL

step_2_conversion_time(r, W) ==
    IF /\ isNotNull(r.latest_2) = 1
       /\ ifNull(lessOrEquals(r.latest_2, plus(r.latest_1, W)), 0) = 1
    THEN dateDiff(r.latest_1, r.latest_2)
    ELSE NULL

\* Variant: a latest_i outside the window of the entrance is nulled.
EvaluatedRow_WindowedLatest(r, W) ==
    [aggregation_target |-> r.aggregation_target,
     timestamp |-> r.timestamp,
     step_0 |-> r.step_0, latest_0 |-> r.latest_0,
     step_1 |-> r.step_1,
     latest_1 |-> IF ifNull(lessOrEquals(r.latest_1, plus(r.latest_0, W)), 0) = 1
                  THEN r.latest_1 ELSE NULL,
     step_2 |-> r.step_2,
     latest_2 |-> IF ifNull(lessOrEquals(r.latest_2, plus(r.latest_0, W)), 0) = 1
                  THEN r.latest_2 ELSE NULL,
     steps |-> steps(r, W),
     step_1_conversion_time |-> step_1_conversion_time(r, W),
     step_2_conversion_time |-> step_2_conversion_time(r, W)]

EvaluatedRow(r, W) ==
    [aggregation_target |-> r.aggregation_target,
     timestamp |-> r.timestamp,
     step_0 |-> r.step_0, latest_0 |-> r.latest_0,
     step_1 |-> r.step_1, latest_1 |-> r.latest_1,
     step_2 |-> r.step_2, latest_2 |-> r.latest_2,
     steps |-> steps(r, W),
     step_1_conversion_time |-> step_1_conversion_time(r, W),
     step_2_conversion_time |-> step_2_conversion_time(r, W)]

\* Variant: the filter on step_0 is missing.
IsEntrance_Any(r) == TRUE

\* WHERE ifNull(equals(step_0, 1), 0)
IsEntrance(r) == ifNull(r.step_0, 0) = 1

Evaluate(tbl, W) ==
    LET all == [k \in 1..Len(tbl) |-> EvaluatedRow(tbl[k], W)]
    IN  SelectSeq(all, IsEntrance)

\* ---- entrance aggregation -------------------------------------------------
\* Variant: the filter on the entrance period is missing.
GroupKeys_AllPeriods(ev, P) ==
    {<<ev[k].aggregation_target, toStartOfDay(ev[k].timestamp)>> : k \in 1..Len(ev)}

\* SELECT aggregation_target, toStartOfDay(timestamp) AS entrance_period_start,
\*        max(steps) AS steps_completed
\* WHERE entrance_period_start = P GROUP BY aggregation_target, entrance_period_start
GroupKeys(ev, P) ==
    {<<ev[k].aggregation_target, toStartOfDay(ev[k].timestamp)>> :
        k \in {i \in 1..Len(ev) : toStartOfDay(ev[i].timestamp) = P}}

\* Variant: a group holds the first entrance only when max is taken.
GroupOf_First(ev, key) ==
    LET G == {k \in 1..Len(ev) : /\ ev[k].aggregation_target = key[1]
                                 /\ toStartOfDay(ev[k].timestamp) = key[2]}
    IN  {MinOf(G)}

GroupOf(ev, key) ==
    {k \in 1..Len(ev) : /\ ev[k].aggregation_target = key[1]
                        /\ toStartOfDay(ev[k].timestamp) = key[2]}

\* Variant: min(steps) in place of max(steps).
Aggregate_Min(ev, P) ==
    {[aggregation_target |-> key[1],
      entrance_period_start |-> key[2],
      steps_completed |-> MinOf({ev[k].steps : k \in GroupOf(ev, key)})] :
        key \in GroupKeys(ev, P)}

Aggregate(ev, P) ==
    {[aggregation_target |-> key[1],
      entrance_period_start |-> key[2],
      steps_completed |-> MaxOf({ev[k].steps : k \in GroupOf(ev, key)})] :
        key \in GroupKeys(ev, P)}

\* ---- actor selection ------------------------------------------------------
greaterOrEquals(a, b) == IF a = NULL \/ b = NULL THEN NULL ELSE IF a >= b THEN 1 ELSE 0

\* The depth predicate of a query: "at_least" (to step K), "drop_off" (bounds
\* lo, hi) or "no_to_step" (no target step given).
NoPredicate == [kind |-> "none", lo |-> 0, hi |-> 0]

Predicates ==
    {[kind |-> "at_least", lo |-> k, hi |-> 0] : k \in 1..NumSteps}
        \cup {[kind |-> "drop_off", lo |-> b[1], hi |-> b[2]] :
                    b \in {c \in (1..NumSteps) \X (1..NumSteps) : c[1] < c[2]}}
        \cup {[kind |-> "no_to_step", lo |-> 0, hi |-> 0]}

\* Variant: "at least K" tested with greater in place of greaterOrEquals.
depthWhere_Strict(c, pred) ==
    CASE pred.kind = "at_least" ->
            ifNull(less(pred.lo, c.steps_completed), 0) = 1
      [] pred.kind = "drop_off" ->
            /\ ifNull(greaterOrEquals(c.steps_completed, pred.lo), 0) = 1
            /\ ifNull(less(c.steps_completed, pred.hi), 0) = 1
      [] pred.kind = "no_to_step" ->
            ifNull(less(NumSteps, c.steps_completed), 0) = 1

\* Variant: the upper bound of a drop-off is inclusive.
depthWhere_InclusiveHi(c, pred) ==
    CASE pred.kind = "at_least" ->
            ifNull(greaterOrEquals(c.steps_completed, pred.lo), 0) = 1
      [] pred.kind = "drop_off" ->
            /\ ifNull(greaterOrEquals(c.steps_completed, pred.lo), 0) = 1
            /\ ifNull(lessOrEquals(c.steps_completed, pred.hi), 0) = 1
      [] pred.kind = "no_to_step" ->
            ifNull(greaterOrEquals(c.steps_completed, NumSteps), 0) = 1

\* WHERE ifNull(greaterOrEquals(steps_completed, K), 0)
\* WHERE and(ifNull(greaterOrEquals(steps_completed, lo), 0),
\*           ifNull(less(steps_completed, hi), 0))
\* WHERE ifNull(greaterOrEquals(steps_completed, 3), 0)      (no target step)
depthWhere(c, pred) ==
    CASE pred.kind = "at_least" ->
            ifNull(greaterOrEquals(c.steps_completed, pred.lo), 0) = 1
      [] pred.kind = "drop_off" ->
            /\ ifNull(greaterOrEquals(c.steps_completed, pred.lo), 0) = 1
            /\ ifNull(less(c.steps_completed, pred.hi), 0) = 1
      [] pred.kind = "no_to_step" ->
            ifNull(greaterOrEquals(c.steps_completed, NumSteps), 0) = 1

\* ORDER BY <key> ASC of a set of keys
RECURSIVE AscendingSeq(_)
AscendingSeq(S) ==
    IF S = {} THEN <<>> ELSE <<MinOf(S)>> \o AscendingSeq(S \ {MinOf(S)})

\* SELECT aggregation_target AS actor_id FROM (cohort) WHERE <depth predicate>
\* ORDER BY aggregation_target ASC
SelectActors(coh, pred) ==
    AscendingSeq({c.aggregation_target : c \in {d \in coh : depthWhere(d, pred)}})

\* ---- persons join, order and page ------------------------------------------
\* LIMIT 101 OFFSET 0
LIMIT == 101
OFFSET == 0

\* page size behind the lookahead row
PageSize == 100

\* persons subquery: the row of the latest version of each person,
\* HAVING ifNull(equals(argMax(person.is_deleted, person.version), 0), 0)
PersonRows(tbl) ==
    {[id |-> p.id, created_at |-> p.created_at] :
        p \in {q \in tbl : ifNull(IF q.is_deleted = 0 THEN 1 ELSE 0, 0) = 1}}

\* persons INNER JOIN source ON equals(persons.id, source.actor_id)
InnerJoin(prs, src) ==
    {p \in prs : \E k \in 1..Len(src) : p.id = src[k]}

\* every order of a set of rows
RECURSIVE AnyOrders(_)
AnyOrders(S) ==
    IF S = {} THEN {<<>>}
    ELSE UNION {{<<g>> \o rest : rest \in AnyOrders(S \ {g})} : g \in S}

\* ORDER BY created_at DESC: every order of the rows in which created_at
\* never increases; rows of equal created_at come in any order.  The rows
\* are split at a middle created_at v: those created after v come first.
RECURSIVE DescendingOrders(_)
DescendingOrders(S) ==
    LET vals == {p.created_at : p \in S}
    IN  IF Cardinality(vals) <= 1 THEN AnyOrders(S)
        ELSE LET v == CHOOSE u \in vals :
                          Cardinality({w \in vals : w <= u}) = Cardinality(vals) \div 2
                 later == {p \in S : p.created_at > v}
             IN  {hd \o tl : hd \in DescendingOrders(later),
                             tl \in DescendingOrders(S \ later)}

Min2(a, b) == IF a <= b THEN a ELSE b

\* Variant: LIMIT 100, no lookahead row.
limitOffset_NoLookahead(tbl) ==
    SubSeq(tbl, OFFSET + 1, Min2(Len(tbl), OFFSET + PageSize))

\* LIMIT 101 OFFSET 0
limitOffset(tbl) ==
    SubSeq(tbl, OFFSET + 1, Min2(Len(tbl), OFFSET + LIMIT))

\* marker "more rows exist": the lookahead row came back
hasMore(page) == Len(page) > PageSize

\* ---- supportLogic ------------------------------------------------------------
\* null and undefined are the strings "null" and "undefined"; a string that
\* is split at ':' or built by join(':') is the sequence of its fields, and
\* a hash parameter that is absent is the empty sequence.
SUPPORT_KIND_TO_SUBJECT ==
    [bug |-> "Bug Report", feedback |-> "Feedback", support |-> "Support Ticket"]

SEVERITY_LEVEL_TO_NAME ==
    [critical |-> "Product outage / data loss / data breach",
     high |-> "Specific feature not working at all",
     medium |-> "Feature functioning but not as expected",
     low |-> "General question or feature request"]

\* the option values of the two categories, 'General' and 'Individual product'
TARGET_AREA_TO_NAME ==
    <<{"apps", "login", "billing", "onboarding", "cohorts", "data_management", "notebooks"},
      {"experiments", "data_warehouse", "feature_flags", "analytics", "session_replay",
       "toolbar", "surveys", "web_analytics"}>>

TargetAreaValues == UNION {TARGET_AREA_TO_NAME[i] : i \in DOMAIN TARGET_AREA_TO_NAME}

\* Object.keys of an array: its indices as strings
ArrayKeys(arr) == {<<"0", "1">>[i] : i \in DOMAIN arr}

URL_PATH_TO_TARGET_AREA ==
    [p \in {"insights", "recordings", "replay", "dashboard", "feature_flags", "experiments",
            "web-performance", "events", "data-management", "cohorts", "annotations",
            "persons", "groups", "app", "toolbar", "warehouse", "surveys", "web"} |->
        CASE p \in {"insights", "dashboard", "events", "annotations", "persons", "groups"}
                -> "analytics"
          [] p \in {"recordings", "replay", "web-performance", "toolbar"} -> "session_replay"
          [] p = "feature_flags" -> "feature_flags"
          [] p = "experiments" -> "experiments"
          [] p = "data-management" -> "data_management"
          [] p = "cohorts" -> "cohorts"
          [] p = "app" -> "apps"
          [] p = "warehouse" -> "data_warehouse"
          [] p = "surveys" -> "surveys"
          [] p = "web" -> "web_analytics"]

\* URL_PATH_TO_TARGET_AREA[first_part] ?? null
getURLPathToTargetArea(first_part) ==
    IF first_part \in DOMAIN URL_PATH_TO_TARGET_AREA
    THEN URL_PATH_TO_TARGET_AREA[first_part]
    ELSE "null"

\* a ?? b
Nullish(a, b) == IF a \in {"null", "undefined"} THEN b ELSE a

\* forms.sendSupportRequest.defaults
FormDefaults ==
    [name |-> "", email |-> "", kind |-> "support",
     severity_level |-> "null", target_area |-> "null", message |-> ""]

\* forms.sendSupportRequest.errors: no field has an error
NoErrors(form, user) ==
    /\ user = "null" => form.name # "" /\ form.email # ""
    /\ form.message # ""
    /\ form.kind \notin {"null", ""}
    /\ form.severity_level \notin {"null", ""}
    /\ form.target_area \notin {"null", ""}

\* listeners.updateUrlParams: the hash after setSidePanelOptions(panelOptions),
\* which is skipped when the joined options are ':'
updateUrlParams(form, hash) ==
    LET panelOptions == <<Nullish(form.kind, ""), Nullish(form.target_area, ""),
                          Nullish(form.severity_level, "")>>
    IN  IF panelOptions # <<"", "">>
        THEN [hash EXCEPT !.panel = <<"support">> \o panelOptions]
        ELSE hash

\* the i-th element of a destructured array, undefined past its end
Field(arr, i) == IF i <= Len(arr) THEN arr[i] ELSE "undefined"

\* the values urlToAction passes to openSupportForm for the options kind:area:severity
ParsedOptions(opts) ==
    [name |-> "undefined", email |-> "undefined", message |-> "undefined",
     kind |-> IF Field(opts, 1) \in DOMAIN SUPPORT_KIND_TO_SUBJECT
              THEN Field(opts, 1) ELSE "null",
     target_area |-> IF Field(opts, 2) \in ArrayKeys(TARGET_AREA_TO_NAME)
                     THEN Field(opts, 2) ELSE "null",
     severity_level |-> IF Field(opts, 3) \in DOMAIN SEVERITY_LEVEL_TO_NAME
                        THEN Field(opts, 3) ELSE "null"]

\* (s ?? '').split(':')
SplitOrEmpty(str) == IF str = <<>> THEN <<"">> ELSE str

\* openSupportForm: the reducer and the listener (resetSendSupportRequest,
\* then updateUrlParams); first_part is the first part of the pathname
OpenForm(values, first_part) ==
    LET area == Nullish(values.target_area, getURLPathToTargetArea(first_part))
        kind == Nullish(values.kind, "support")
        form == [name |-> Nullish(values.name, ""),
                 email |-> Nullish(values.email, ""),
                 kind |-> kind,
                 target_area |-> area,
                 severity_level |-> Nullish(values.severity_level, "null"),
                 message |-> Nullish(values.message, "")]
    IN  /\ isSupportFormOpen' = TRUE
        /\ sendSupportRequest' = form
        /\ hashParams' = updateUrlParams(form, hashParams)

\* ---- SessionRecordingsFilters ------------------------------------------------
\* An array is an object with an identity (ref) and its entities (items);
\* undefined is the value with ref 0.
Refs == 1..MaxRefs
Undefined == [ref |-> 0, items |-> <<>>]
Array(r, items) == [ref |-> r, items |-> items]

\* the entities a filter lists
Items == {<<>>, <<"pageview">>}

\* the values of filters.actions and filters.events, identities aside
Shapes ==
    {[defined |-> FALSE, items |-> <<>>]} \cup {[defined |-> TRUE, items |-> i] : i \in Items}

\* the first reference no live object has
Fresh(used) == CHOOSE r \in Refs \ used : \A q \in Refs \ used : r <= q

Build(shape, r) == IF shape.defined THEN Array(r, shape.items) ELSE Undefined

\* a?.length, undefined counted as 0 where it is tested for truth
length(a) == IF a.ref = 0 THEN 0 ELSE Len(a.items)

\* a === b
equal_Identity(a, b) == a.ref = b.ref

\* fast-deep-equal
equal(a, b) ==
    IF a.ref = 0 \/ b.ref = 0 THEN a.ref = b.ref ELSE a.items = b.items

\* filtersToLocalFilters; used are the references of the live objects
filtersToLocalFilters(fs, used) ==
    IF length(fs.actions) > 0 \/ length(fs.events) > 0
    THEN [actions |-> fs.actions, events |-> fs.events, new_entity |-> FALSE]
    ELSE LET r1 == Fresh(used)
             r2 == Fresh(used \cup {r1})
         IN  [actions |-> Array(r1, <<>>), events |-> Array(r2, <<>>), new_entity |-> TRUE]

\* the condition both effects test
OutOfSync(fs, lf) ==
    \/ ~equal(fs.actions, lf.actions)
    \/ ~equal(fs.events, lf.events)

\* no state update is queued
NoUpdates == [setFilters |-> <<>>, setLocalFilters |-> <<>>]

\* the references of the objects the component, its parent and the queue hold
UsedRefs(fs, lf, ups) ==
    LET held(o) == {o.actions.ref, o.events.ref}
    IN  (held(fs) \cup held(lf)
            \cup UNION {held(ups.setFilters[i]) : i \in DOMAIN ups.setFilters}
            \cup UNION {held(ups.setLocalFilters[i]) : i \in DOMAIN ups.setLocalFilters})
        \ {0}

\* ---- state machine --------------------------------------------------------
\* the query has not been started by a caller that watches the clock
QueryIdle ==
    /\ elapsed = 0
    /\ outcome = "none"

\* the support form as constructed: closed, fields at their defaults
SupportIdle ==
    /\ isSupportFormOpen = FALSE
    /\ sendSupportRequest = FormDefaults
    /\ hashParams = [panel |-> <<>>, supportModal |-> <<>>]
    /\ urlPending = FALSE
    /\ inflight = <<>>
    /\ toast = "none"

\* no funnel query is running
FunnelIdle ==
    /\ events = <<>>
    /\ rows = <<>>
    /\ window = 0
    /\ period = 0
    /\ evaluated = <<>>
    /\ cohort = {}
    /\ pc = "idle"
    /\ predicate = NoPredicate
    /\ selected = <<>>
    /\ persons = {}
    /\ joined = {}
    /\ result = <<>>
    /\ has_more = FALSE

\* the recording filters component is not mounted
FiltersIdle ==
    /\ filters = [actions |-> Undefined, events |-> Undefined]
    /\ localFilters = [actions |-> Undefined, events |-> Undefined, new_entity |-> FALSE]
    /\ effects = <<>>
    /\ updates = NoUpdates

Event == [actor : Actors, timestamp : Timestamps, event : EventNames]

\* The event store hands over rows sorted ascending by timestamp.
SortedAsc(ev) == \A k \in 1..(Len(ev) - 1) : ev[k].timestamp <= ev[k + 1].timestamp

EventTables == UNION {{ev \in [1..n -> Event] : SortedAsc(ev)} : n \in 0..MaxEvents}

Periods == {toStartOfDay(t) : t \in Timestamps}

Init ==
    /\ events \in EventTables
    /\ rows = <<>>
    /\ window = 0
    /\ period = 0
    /\ evaluated = <<>>
    /\ cohort = {}
    /\ pc = "events"
    /\ predicate = NoPredicate
    /\ selected = <<>>
    /\ persons = {}
    /\ joined = {}
    /\ result = <<>>
    /\ has_more = FALSE
    /\ QueryIdle
    /\ SupportIdle
    /\ FiltersIdle

\* innermost subquery: the step signals of the events in range
Classify ==
    /\ pc = "events"
    /\ rows' = SignalRows(events)
    /\ pc' = "signals"
    /\ UNCHANGED <<events, window, period, evaluated, cohort>>
    /\ UNCHANGED selectorVars
    /\ UNCHANGED <<queryVars, supportVars, filterVars>>

\* running min of latest_1 and latest_2
FirstResolution ==
    /\ pc = "signals"
    /\ rows' = ResolveFirst(rows)
    /\ pc' = "first"
    /\ UNCHANGED <<events, window, period, evaluated, cohort>>
    /\ UNCHANGED selectorVars
    /\ UNCHANGED <<queryVars, supportVars, filterVars>>

\* latest_2 before latest_1 is dropped
OrderSteps ==
    /\ pc = "first"
    /\ rows' = DropOutOfOrder(rows)
    /\ pc' = "ordered"
    /\ UNCHANGED <<events, window, period, evaluated, cohort>>
    /\ UNCHANGED selectorVars
    /\ UNCHANGED <<queryVars, supportVars, filterVars>>

\* running min of latest_2 again
SecondResolution ==
    /\ pc = "ordered"
    /\ rows' = ResolveSecond(rows)
    /\ pc' = "resolved"
    /\ UNCHANGED <<events, window, period, evaluated, cohort>>
    /\ UNCHANGED selectorVars
    /\ UNCHANGED <<queryVars, supportVars, filterVars>>

\* steps and conversion times of every entrance, conversion window W
EvaluateDepth(W) ==
    /\ pc = "resolved"
    /\ window' = W
    /\ evaluated' = Evaluate(rows, W)
    /\ pc' = "evaluated"
    /\ UNCHANGED <<events, rows, period, cohort>>
    /\ UNCHANGED selectorVars
    /\ UNCHANGED <<queryVars, supportVars, filterVars>>

\* cohort rows of entrance period P
AggregateEntrances(P) ==
    /\ pc = "evaluated"
    /\ period' = P
    /\ cohort' = Aggregate(evaluated, P)
    /\ pc' = "aggregated"
    /\ UNCHANGED <<events, rows, window, evaluated>>
    /\ UNCHANGED selectorVars
    /\ UNCHANGED <<queryVars, supportVars, filterVars>>

Next ==
    \/ Classify
    \/ FirstResolution
    \/ OrderSteps
    \/ SecondResolution
    \/ \E W \in Windows : EvaluateDepth(W)
    \/ \E P \in Periods : AggregateEntrances(P)

Spec == Init /\ [][Next]_vars

\* ---- the actor selection over the evaluated entrances ----------------------
\* The three resolution subqueries, nested as in the query.
Resolve(ev) == ResolveSecond(DropOutOfOrder(ResolveFirst(SignalRows(ev))))

\* The evaluated tables the depth evaluation can produce.
EvaluatedTables(ws) == {Evaluate(Resolve(ev), W) : ev \in EventTables, W \in ws}

\* The outer subqueries read the evaluated table only: they start from any
\* table the depth evaluation produces.
InitSelect ==
    /\ evaluated \in EvaluatedTables(Windows)
    /\ events = <<>>
    /\ rows = <<>>
    /\ window = 0
    /\ period = 0
    /\ cohort = {}
    /\ pc = "evaluated"
    /\ predicate = NoPredicate
    /\ selected = <<>>
    /\ persons = {}
    /\ joined = {}
    /\ result = <<>>
    /\ has_more = FALSE
    /\ QueryIdle
    /\ SupportIdle
    /\ FiltersIdle

\* actor_id subquery: the depth predicate over the cohort rows
SelectCohort(pred) ==
    /\ pc = "aggregated"
    /\ predicate' = pred
    /\ selected' = SelectActors(cohort, pred)
    /\ pc' = "selected"
    /\ UNCHANGED cohortVars
    /\ UNCHANGED <<persons, joined, result, has_more>>
    /\ UNCHANGED <<queryVars, supportVars, filterVars>>

NextSelect ==
    \/ \E P \in Periods : AggregateEntrances(P)
    \/ \E pred \in Predicates : SelectCohort(pred)

SpecSelect == InitSelect /\ [][NextSelect]_vars

\* ---- the outer query over the selected actors -----------------------------
PersonIds == 1..MaxPersons

\* person tables: at most one (latest) row per person
PersonTables ==
    UNION {{{[id |-> i, created_at |-> f[i].created_at, is_deleted |-> f[i].is_deleted] :
                i \in S} :
              f \in [S -> [created_at : 0..MaxCreated, is_deleted : {0, 1}]]} :
           S \in SUBSET PersonIds}

\* a result of the actor_id subquery: distinct actor ids in ascending order
SelectedLists == {AscendingSeq(S) : S \in SUBSET PersonIds}

\* n actors selected, each with a live person created at its own time
ManySelected(n) == [k \in 1..n |-> k]

ManyPersons(n) == {[id |-> k, created_at |-> k, is_deleted |-> 0] : k \in 1..n}

\* The outer query reads the selected actors and the person table only.
InitPersons ==
    /\ \/ selected \in SelectedLists /\ persons \in PersonTables
       \/ \E n \in 0..MaxQualifying :
            selected = ManySelected(n) /\ persons = ManyPersons(n)
    /\ events = <<>>
    /\ rows = <<>>
    /\ window = 0
    /\ period = 0
    /\ evaluated = <<>>
    /\ cohort = {}
    /\ pc = "selected"
    /\ predicate = NoPredicate
    /\ joined = {}
    /\ result = <<>>
    /\ has_more = FALSE
    /\ QueryIdle
    /\ SupportIdle
    /\ FiltersIdle

\* persons INNER JOIN source
JoinPersons ==
    /\ pc = "selected"
    /\ joined' = InnerJoin(PersonRows(persons), selected)
    /\ pc' = "joined"
    /\ UNCHANGED cohortVars
    /\ UNCHANGED <<predicate, selected, persons, result, has_more>>
    /\ UNCHANGED <<queryVars, supportVars, filterVars>>

\* ORDER BY created_at DESC
OrderPersons ==
    /\ pc = "joined"
    /\ result' \in DescendingOrders(joined)
    /\ pc' = "ordered"
    /\ UNCHANGED cohortVars
    /\ UNCHANGED <<predicate, selected, persons, joined, has_more>>
    /\ UNCHANGED <<queryVars, supportVars, filterVars>>

\* LIMIT 101 OFFSET 0, and the marker read off the returned rows
ReturnPage ==
    /\ pc = "ordered"
    /\ result' = limitOffset(result)
    /\ has_more' = hasMore(limitOffset(result))
    /\ pc' = "returned"
    /\ outcome' = "ok"
    /\ UNCHANGED cohortVars
    /\ UNCHANGED <<predicate, selected, persons, joined>>
    /\ UNCHANGED <<elapsed, supportVars, filterVars>>

NextPersons ==
    \/ JoinPersons
    \/ OrderPersons
    \/ ReturnPage

SpecPersons == InitPersons /\ [][NextPersons]_vars

\* ---- the resolution subqueries on rows with any combination of signals -------
\* The subqueries above the innermost SELECT read the columns step_i and
\* latest_i only.  Here a row may carry several step signals at once, as the
\* rows of a funnel whose step definitions overlap do.
Signals == {sg \in [0..(NumSteps - 1) -> {0, 1}] : \E i \in 0..(NumSteps - 1) : sg[i] = 1}

SignalRowOf(a, t, sg) ==
    [aggregation_target |-> a,
     timestamp |-> t,
     step_0 |-> sg[0],
     latest_0 |-> IF ifNull(sg[0], 0) = 1 THEN t ELSE NULL,
     step_1 |-> sg[1],
     latest_1 |-> IF ifNull(sg[1], 0) = 1 THEN t ELSE NULL,
     step_2 |-> sg[2],
     latest_2 |-> IF ifNull(sg[2], 0) = 1 THEN t ELSE NULL]

SignalRowSet == {SignalRowOf(a, t, sg) : a \in Actors, t \in Timestamps, sg \in Signals}

SignalTables ==
    UNION {{tbl \in [1..n -> SignalRowSet] : SortedAsc(tbl)} : n \in 0..MaxSignalRows}

InitSignals ==
    /\ rows \in SignalTables
    /\ events = <<>>
    /\ window = 0
    /\ period = 0
    /\ evaluated = <<>>
    /\ cohort = {}
    /\ pc = "signals"
    /\ predicate = NoPredicate
    /\ selected = <<>>
    /\ persons = {}
    /\ joined = {}
    /\ result = <<>>
    /\ has_more = FALSE
    /\ QueryIdle
    /\ SupportIdle
    /\ FiltersIdle

NextSignals ==
    \/ FirstResolution
    \/ OrderSteps
    \/ SecondResolution
    \/ \E W \in Windows : EvaluateDepth(W)
    \/ \E P \in Periods : AggregateEntrances(P)

SpecSignals == InitSignals /\ [][NextSignals]_vars

\* ---- the outer query under its execution time limit -------------------------
\* SETTINGS max_execution_time=60
max_execution_time == 60

QueryRunning == pc \in {"selected", "joined", "ordered"}

\* The outer query is started on n selected actors with live persons.
InitTimeout ==
    /\ \E n \in 0..MaxPersons :
            selected = ManySelected(n) /\ persons = ManyPersons(n)
    /\ events = <<>>
    /\ rows = <<>>
    /\ window = 0
    /\ period = 0
    /\ evaluated = <<>>
    /\ cohort = {}
    /\ pc = "selected"
    /\ predicate = NoPredicate
    /\ joined = {}
    /\ result = <<>>
    /\ has_more = FALSE
    /\ QueryIdle
    /\ SupportIdle
    /\ FiltersIdle

\* a second of execution time passes
Tick ==
    /\ QueryRunning
    /\ elapsed <= max_execution_time
    /\ elapsed' = elapsed + 1
    /\ UNCHANGED <<cohortVars, pc, selectorVars, outcome, supportVars, filterVars>>

\* Variant: timeout_overflow_mode = 'break', the rows so far are the result.
Timeout_Break ==
    /\ QueryRunning
    /\ elapsed > max_execution_time
    /\ pc' = "failed"
    /\ outcome' = "ok"
    /\ result' = <<>>
    /\ UNCHANGED <<cohortVars, predicate, selected, persons, joined, has_more>>
    /\ UNCHANGED <<elapsed, supportVars, filterVars>>

\* max_execution_time exceeded (timeout_overflow_mode is left at 'throw'):
\* the query ends with an exception and hands over no rows.
Timeout ==
    /\ QueryRunning
    /\ elapsed > max_execution_time
    /\ pc' = "failed"
    /\ outcome' = "timeout"
    /\ result' = <<>>
    /\ UNCHANGED <<cohortVars, predicate, selected, persons, joined, has_more>>
    /\ UNCHANGED <<elapsed, supportVars, filterVars>>

\* the caller cancels the running query
Cancel ==
    /\ QueryRunning
    /\ pc' = "failed"
    /\ outcome' = "cancelled"
    /\ result' = <<>>
    /\ UNCHANGED <<cohortVars, predicate, selected, persons, joined, has_more>>
    /\ UNCHANGED <<elapsed, supportVars, filterVars>>

\* a stage of the query runs only while the time limit is not exceeded
NextTimeout ==
    \/ Tick
    \/ elapsed <= max_execution_time /\ JoinPersons
    \/ elapsed <= max_execution_time /\ OrderPersons
    \/ elapsed <= max_execution_time /\ ReturnPage
    \/ Timeout
    \/ Cancel

SpecTimeout == InitTimeout /\ [][NextTimeout]_vars

\* ---- the support form and its tickets ---------------------------------------
\* values a caller passes to openSupportForm (Partial<SupportFormFields>)
OpenValues ==
    {[name |-> who[1], email |-> who[2], kind |-> k, target_area |-> a,
      severity_level |-> sv, message |-> m] :
        who \in {<<"undefined", "undefined">>, <<"Ann", "ann@example.com">>},
        k \in {"undefined", "bug"},
        a \in {"undefined", "billing"},
        sv \in {"undefined", "high"},
        m \in {"undefined", "help"}}

\* first part of window.location.pathname
PathParts == {"insights", "home"}

\* values.user: logged in or not
Users == {[first_name |-> "null", email |-> "null"],
          [first_name |-> "Max", email |-> "max@example.com"]}

\* values the form fields are set to
FieldValues ==
    [kind |-> DOMAIN SUPPORT_KIND_TO_SUBJECT,
     target_area |-> {"billing", "null"},
     severity_level |-> {"high", "null"},
     message |-> {"", "help"}]

InitSupport ==
    /\ FunnelIdle
    /\ QueryIdle
    /\ SupportIdle
    /\ FiltersIdle

\* actions.openSupportForm(values)
OpenSupportForm(values, first_part) ==
    /\ OpenForm(values, first_part)
    /\ UNCHANGED <<urlPending, inflight, toast>>
    /\ UNCHANGED <<cohortVars, pc, selectorVars, queryVars, filterVars>>

\* actions.closeSupportForm(); the listener calls props.onClose
CloseSupportForm ==
    /\ isSupportFormOpen' = FALSE
    /\ UNCHANGED <<sendSupportRequest, hashParams, urlPending, inflight, toast>>
    /\ UNCHANGED <<cohortVars, pc, selectorVars, queryVars, filterVars>>

\* actions.setSendSupportRequestValue(field, value); the listener calls
\* updateUrlParams
SetSendSupportRequestValue(field, value) ==
    /\ sendSupportRequest' = [sendSupportRequest EXCEPT ![field] = value]
    /\ hashParams' = updateUrlParams([sendSupportRequest EXCEPT ![field] = value], hashParams)
    /\ UNCHANGED <<isSupportFormOpen, urlPending, inflight, toast>>
    /\ UNCHANGED <<cohortVars, pc, selectorVars, queryVars, filterVars>>

\* forms.sendSupportRequest.submit, run when the form has no errors:
\* submitZendeskTicket (the listener runs up to its fetch), closeSupportForm,
\* resetSendSupportRequest
SubmitSendSupportRequest(user) ==
    /\ NoErrors(sendSupportRequest, user.first_name)
    /\ Len(inflight) < MaxPosts
    /\ inflight' = Append(inflight,
            [sendSupportRequest EXCEPT
                !.name = Nullish(user.first_name, Nullish(sendSupportRequest.name, "name not set")),
                !.email = Nullish(user.email, Nullish(sendSupportRequest.email, ""))])
    /\ isSupportFormOpen' = FALSE
    /\ sendSupportRequest' = FormDefaults
    /\ UNCHANGED <<hashParams, urlPending, toast>>
    /\ UNCHANGED <<cohortVars, pc, selectorVars, queryVars, filterVars>>

\* the in-flight tickets without the k-th
WithoutPost(k) == SubSeq(inflight, 1, k - 1) \o SubSeq(inflight, k + 1, Len(inflight))

\* the POST of ticket k returns ok: capture, lemonToast.success
PostSucceeds(k) ==
    /\ k \in 1..Len(inflight)
    /\ inflight' = WithoutPost(k)
    /\ toast' = "success"
    /\ UNCHANGED <<isSupportFormOpen, sendSupportRequest, hashParams, urlPending>>
    /\ UNCHANGED <<cohortVars, pc, selectorVars, queryVars, filterVars>>

\* Variant: a failed POST reopens the form with the message of the ticket.
PostNotOk_Reopen(k) ==
    /\ k \in 1..Len(inflight)
    /\ inflight' = WithoutPost(k)
    /\ toast' = "error"
    /\ isSupportFormOpen' = TRUE
    /\ sendSupportRequest' = inflight[k]
    /\ UNCHANGED <<hashParams, urlPending>>
    /\ UNCHANGED <<cohortVars, pc, selectorVars, queryVars, filterVars>>

\* the POST of ticket k returns !response.ok: captureException,
\* lemonToast.error, return
PostNotOk(k) ==
    /\ k \in 1..Len(inflight)
    /\ inflight' = WithoutPost(k)
    /\ toast' = "error"
    /\ UNCHANGED <<isSupportFormOpen, sendSupportRequest, hashParams, urlPending>>
    /\ UNCHANGED <<cohortVars, pc, selectorVars, queryVars, filterVars>>

\* fetch or response.json() throws: catch, captureException, lemonToast.error
PostThrows(k) ==
    /\ k \in 1..Len(inflight)
    /\ inflight' = WithoutPost(k)
    /\ toast' = "error"
    /\ UNCHANGED <<isSupportFormOpen, sendSupportRequest, hashParams, urlPending>>
    /\ UNCHANGED <<cohortVars, pc, selectorVars, queryVars, filterVars>>

NextSupport ==
    \/ \E values \in OpenValues, first_part \in PathParts : OpenSupportForm(values, first_part)
    \/ CloseSupportForm
    \/ \E field \in DOMAIN FieldValues : \E value \in FieldValues[field] :
            SetSendSupportRequestValue(field, value)
    \/ \E user \in Users : SubmitSendSupportRequest(user)
    \/ \E k \in 1..MaxPosts : PostSucceeds(k)
    \/ \E k \in 1..MaxPosts : PostNotOk(k)
    \/ \E k \in 1..MaxPosts : PostThrows(k)

SpecSupport == InitSupport /\ [][NextSupport]_vars

\* ---- the support form and the URL hash --------------------------------------
\* hash parameters a location can carry
HashValues ==
    {[panel |-> pn, supportModal |-> sm] :
        pn \in {<<>>, <<"docs">>, <<"support">>}
                \cup {<<"support", k, a, sv>> :
                        k \in {"bug", "oops"}, a \in {"billing", "0"}, sv \in {"high", ""}},
        sm \in {<<>>, <<"bug", "billing", "high">>}}

\* the location changes to one with hash h; the router will call urlToAction
Navigate(h) ==
    /\ hashParams' = h
    /\ urlPending' = TRUE
    /\ UNCHANGED <<isSupportFormOpen, sendSupportRequest, inflight, toast>>
    /\ UNCHANGED <<cohortVars, pc, selectorVars, queryVars, filterVars>>

\* the page is loaded again at its present location: the logic is built
\* anew and the router calls urlToAction
Reload ==
    /\ isSupportFormOpen' = FALSE
    /\ sendSupportRequest' = FormDefaults
    /\ urlPending' = TRUE
    /\ UNCHANGED <<hashParams, inflight, toast>>
    /\ UNCHANGED <<cohortVars, pc, selectorVars, queryVars, filterVars>>

\* urlToAction '*': (_, _search, hashParams)
UrlToAction(first_part) ==
    /\ urlPending
    /\ urlPending' = FALSE
    /\ LET fields == SplitOrEmpty(hashParams.panel)
           panel == Head(fields)
           panelOptions == Tail(fields)
       IN  IF isSupportFormOpen
           THEN UNCHANGED <<isSupportFormOpen, sendSupportRequest, hashParams>>
           ELSE IF panel = "support"
                THEN OpenForm(ParsedOptions(panelOptions), first_part)
                ELSE IF hashParams.supportModal # <<>>
                     THEN OpenForm(ParsedOptions(SplitOrEmpty(hashParams.supportModal)),
                                   first_part)
                     ELSE UNCHANGED <<isSupportFormOpen, sendSupportRequest, hashParams>>
    /\ UNCHANGED <<inflight, toast>>
    /\ UNCHANGED <<cohortVars, pc, selectorVars, queryVars, filterVars>>

NextUrl ==
    \/ \E h \in HashValues : Navigate(h)
    \/ Reload
    \/ \E first_part \in PathParts : UrlToAction(first_part)
    \/ CloseSupportForm
    \/ \E field \in DOMAIN FieldValues : \E value \in FieldValues[field] :
            SetSendSupportRequestValue(field, value)

SpecUrl == InitSupport /\ [][NextUrl]_vars

\* ---- the recording filters and their two effects -----------------------------
\* the first render: filters are the props, localFilters the useState
\* initial value, and both effects are scheduled
InitFilters ==
    /\ FunnelIdle
    /\ QueryIdle
    /\ SupportIdle
    /\ \E a \in Shapes, e \in Shapes :
        LET fs == [actions |-> Build(a, 1), events |-> Build(e, 2)]
        IN  /\ filters = fs
            /\ localFilters = filtersToLocalFilters(fs, {1, 2})
    /\ effects = <<"localFilters", "filters">>
    /\ updates = NoUpdates

\* useEffect(..., [localFilters])
RunEffect1 ==
    /\ effects # <<>>
    /\ Head(effects) = "localFilters"
    /\ effects' = Tail(effects)
    /\ updates' = IF OutOfSync(filters, localFilters)
                  THEN [updates EXCEPT !.setFilters =
                            Append(@, [actions |-> localFilters.actions,
                                       events |-> localFilters.events])]
                  ELSE updates
    /\ UNCHANGED <<filters, localFilters>>
    /\ UNCHANGED <<cohortVars, pc, selectorVars, queryVars, supportVars>>

\* useEffect(..., [filters])
RunEffect2 ==
    /\ effects # <<>>
    /\ Head(effects) = "filters"
    /\ effects' = Tail(effects)
    /\ updates' = IF OutOfSync(filters, localFilters)
                  THEN [updates EXCEPT !.setLocalFilters =
                            Append(@, filtersToLocalFilters(filters,
                                        UsedRefs(filters, localFilters, updates)))]
                  ELSE updates
    /\ UNCHANGED <<filters, localFilters>>
    /\ UNCHANGED <<cohortVars, pc, selectorVars, queryVars, supportVars>>

\* the queued updates are applied in one render, which schedules the effects
\* whose dependency changed, in the order of their declaration
Rerender ==
    /\ effects = <<>>
    /\ updates # NoUpdates
    /\ filters' = IF updates.setFilters # <<>>
                  THEN updates.setFilters[Len(updates.setFilters)]
                  ELSE filters
    /\ localFilters' = IF updates.setLocalFilters # <<>>
                       THEN updates.setLocalFilters[Len(updates.setLocalFilters)]
                       ELSE localFilters
    /\ effects' = (IF updates.setLocalFilters # <<>> THEN <<"localFilters">> ELSE <<>>)
                    \o (IF updates.setFilters # <<>> THEN <<"filters">> ELSE <<>>)
    /\ updates' = NoUpdates
    /\ UNCHANGED <<cohortVars, pc, selectorVars, queryVars, supportVars>>

\* a child calls setLocalFilters with the entities the user chose
UserEdit(a, e) ==
    /\ effects = <<>>
    /\ updates = NoUpdates
    /\ LET used == UsedRefs(filters, localFilters, updates)
           r1 == Fresh(used)
           r2 == Fresh(used \cup {r1})
       IN  updates' = [updates EXCEPT !.setLocalFilters =
                          <<[actions |-> Array(r1, a), events |-> Array(r2, e),
                             new_entity |-> FALSE]>>]
    /\ UNCHANGED <<filters, localFilters, effects>>
    /\ UNCHANGED <<cohortVars, pc, selectorVars, queryVars, supportVars>>

\* the parent hands over other filters
ParentChange(a, e) ==
    /\ effects = <<>>
    /\ updates = NoUpdates
    /\ LET used == UsedRefs(filters, localFilters, updates)
           r1 == Fresh(used)
           r2 == Fresh(used \cup {r1})
       IN  updates' = [updates EXCEPT !.setFilters =
                          <<[actions |-> Build(a, r1), events |-> Build(e, r2)]>>]
    /\ UNCHANGED <<filters, localFilters, effects>>
    /\ UNCHANGED <<cohortVars, pc, selectorVars, queryVars, supportVars>>

NextFilters ==
    \/ RunEffect1
    \/ RunEffect2
    \/ Rerender
    \/ \E a \in Items, e \in Items : UserEdit(a, e)
    \/ \E a \in Shapes, e \in Shapes : ParentChange(a, e)

\* React runs every scheduled effect and renders every queued update
SpecFilters ==
    /\ InitFilters
    /\ [][NextFilters]_vars
    /\ WF_vars(RunEffect1)
    /\ WF_vars(RunEffect2)
    /\ WF_vars(Rerender)

\* ---- the query of the snapshot on the two-actor scenario --------------------
\* toIntervalDay(n)
toIntervalDay(n) == n * DayLen

\* conversion window of the snapshot: toIntervalDay(14)
WindowDays == 14

\* date range of the snapshot: 2021-05-01 00:00:00 .. 2021-05-07 23:59:59
RangeDays == 7

\* a date range that reaches past the late event of actor B
WideRangeDays == 21

\* day of the late step-two event of actor B
LateDays == 20

\* Actor 1 (A): the three steps at t0, t0 + 1 day, t0 + 2 days.
\* Actor 2 (B): step one at t0, step two at t0 + 20 days.
ScenarioEvents(t0) ==
    {[actor |-> 1, timestamp |-> t0, event |-> "step one"],
     [actor |-> 1, timestamp |-> t0 + toIntervalDay(1), event |-> "step two"],
     [actor |-> 1, timestamp |-> t0 + toIntervalDay(2), event |-> "step three"],
     [actor |-> 2, timestamp |-> t0, event |-> "step one"],
     [actor |-> 2, timestamp |-> t0 + toIntervalDay(LateDays), event |-> "step two"]}

\* and(greaterOrEquals(e.timestamp, <from>), lessOrEquals(e.timestamp, <to>)),
\* a range of whole days that starts with the day of t0
InDateRange(e, t0, days) ==
    /\ e.timestamp >= toStartOfDay(t0)
    /\ e.timestamp < toStartOfDay(t0) + toIntervalDay(days)

\* the scenario events in range, in every order the event store may give
ScenarioTables ==
    UNION {{sq \in AnyOrders({e \in ScenarioEvents(t0) : InDateRange(e, t0, days)}) :
                SortedAsc(sq)} :
           t0 \in Timestamps, days \in {RangeDays, WideRangeDays}}

ScenarioWindows == {toIntervalDay(WindowDays), toIntervalDay(WideRangeDays)}

ScenarioPeriods ==
    UNION {{toStartOfDay(e.timestamp) : e \in ScenarioEvents(t0)} : t0 \in Timestamps}

InitScenario ==
    /\ events \in ScenarioTables
    /\ rows = <<>>
    /\ window = 0
    /\ period = 0
    /\ evaluated = <<>>
    /\ cohort = {}
    /\ pc = "events"
    /\ predicate = NoPredicate
    /\ selected = <<>>
    /\ persons = {}
    /\ joined = {}
    /\ result = <<>>
    /\ has_more = FALSE
    /\ QueryIdle
    /\ SupportIdle
    /\ FiltersIdle

NextScenario ==
    \/ Classify
    \/ FirstResolution
    \/ OrderSteps
    \/ SecondResolution
    \/ \E W \in ScenarioWindows : EvaluateDepth(W)
    \/ \E P \in ScenarioPeriods : AggregateEntrances(P)
    \/ \E pred \in Predicates : SelectCohort(pred)

SpecScenario == InitScenario /\ [][NextScenario]_vars

\* ---- vocabulary of the properties -----------------------------------------
\* event name of funnel step i
StepName(i) == CASE i = 0 -> "step one" [] i = 1 -> "step two" [] i = 2 -> "step three"

\* latest[i] of a resolved row
Latest(r, i) == CASE i = 0 -> r.latest_0 [] i = 1 -> r.latest_1 [] i = 2 -> r.latest_2

\* per_step_duration[i] of an evaluated row
Duration(r, i) == CASE i = 1 -> r.step_1_conversion_time [] i = 2 -> r.step_2_conversion_time

\* timestamps of the events of actor a that carry the step-i signal
StepTimes(a, i) ==
    {events[k].timestamp :
        k \in {j \in 1..Len(events) : events[j].actor = a /\ events[j].event = StepName(i)}}

\* smallest timestamp at or after t among the step-i events of actor a
EarliestAtOrAfter(a, i, t) ==
    LET S == {u \in StepTimes(a, i) : u >= t}
    IN  IF S = {} THEN NULL ELSE MinOf(S)

\* the depth evaluation has run
Evaluated == pc \in {"evaluated", "aggregated"}

Entrances == {evaluated[k] : k \in 1..Len(evaluated)}

\* latest[i] is present and within the window anchored at the entrance
WithinEntranceWindow(r, i) ==
    /\ Latest(r, i) # NULL
    /\ Latest(r, i) <= Latest(r, 0) + window

\* largest k such that every step 1..k is present and within the entrance window
LargestK(r) ==
    MaxOf({k \in 0..(NumSteps - 1) : \A i \in 1..k : WithinEntranceWindow(r, i)})

\* ---- C1 -------------------------------------------------------------------
\* C1: for every entrance and every i in 1..N-1 in increasing order,
\* latest[i] is the smallest timestamp at or after latest[i-1] among the
\* actor's events that carry the step-i signal (stated for the steps whose
\* predecessor latest[i-1] is present).
C1_EarliestOccurrence ==
    Evaluated =>
        \A r \in Entrances : \A i \in 1..(NumSteps - 1) :
            Latest(r, i - 1) # NULL =>
                Latest(r, i) = EarliestAtOrAfter(r.aggregation_target, i, Latest(r, i - 1))

\* ---- C2 -------------------------------------------------------------------
\* C2 as stated: steps_completed equals the largest k such that every step
\* 1..k is present and within W of the entrance, and is 1 when step 1 fails.
C2_StepsEqualLargestK ==
    Evaluated =>
        \A r \in Entrances :
            r.steps = IF LargestK(r) = 0 THEN 1 ELSE LargestK(r)

\* C2 amended: steps_completed equals 1 + the largest k in 0..N-1 such that
\* every step 1..k is present and within W of the entrance latest[0]; the
\* window is anchored at the entrance, and the result is 1 when step 1 fails.
C2_StepsCountEntrance ==
    Evaluated =>
        \A r \in Entrances : r.steps = 1 + LargestK(r)

\* An entrance whose step 2 lies within W of step 1 but not of the entrance,
\* so that the anchor decides, next to the full depth being reached elsewhere.
C2_Witness ==
    /\ Evaluated
    /\ \E r \in Entrances :
        /\ r.steps = 2
        /\ r.latest_2 # NULL
        /\ r.latest_2 <= r.latest_1 + window
        /\ r.latest_2 > r.latest_0 + window

\* ---- C3 -------------------------------------------------------------------
\* C3: per_step_duration[i] is populated exactly when latest[i] is present
\* and latest[i] <= latest[i-1] + W (anchored at the previous step), it then
\* equals latest[i] - latest[i-1], whatever steps_completed is.
C3_DurationPreviousAnchor ==
    Evaluated =>
        \A r \in Entrances : \A i \in 1..(NumSteps - 1) :
            LET populated == /\ Latest(r, i) # NULL
                             /\ Latest(r, i - 1) # NULL
                             /\ Latest(r, i) <= Latest(r, i - 1) + window
            IN  /\ (Duration(r, i) # NULL) <=> populated
                /\ populated => Duration(r, i) = Latest(r, i) - Latest(r, i - 1)

\* A duration of step 2 is reported for an entrance that completed 2 steps only.
C3_Witness ==
    /\ Evaluated
    /\ \E r \in Entrances :
        /\ r.steps = 2
        /\ r.step_2_conversion_time # NULL
        /\ r.step_1_conversion_time # NULL

\* ---- C4 -------------------------------------------------------------------
\* C4: the defined entries of latest[0..N) of an entrance never decrease with
\* the step index.
C4_LatestNonDecreasing ==
    Evaluated =>
        \A r \in Entrances : \A i, j \in 0..(NumSteps - 1) :
            (i < j /\ Latest(r, i) # NULL /\ Latest(r, j) # NULL)
                => Latest(r, i) <= Latest(r, j)

\* A step-2 event lies strictly between the entrance and its step 1: it is
\* the earliest step-2 event after the entrance and is out of order.
C4_Witness ==
    /\ Evaluated
    /\ \E r \in Entrances :
        /\ r.latest_1 # NULL
        /\ \E u \in StepTimes(r.aggregation_target, 2) : r.latest_0 < u /\ u < r.latest_1

\* ---- C5 -------------------------------------------------------------------
\* C5 as stated: when no step-i event exists at or after latest[i-1], then
\* latest[i] is absent and so is every latest[j] with j > i.
C5_AbsentForcesLaterAbsent ==
    Evaluated =>
        \A r \in Entrances : \A i \in 1..(NumSteps - 1) :
            (/\ \A h \in 0..(i - 1) : Latest(r, h) # NULL
             /\ EarliestAtOrAfter(r.aggregation_target, i, Latest(r, i - 1)) = NULL)
                => \A j \in i..(NumSteps - 1) : Latest(r, j) = NULL

\* C5 amended: when no step-i event exists at or after latest[i-1], then
\* latest[i] is absent; a later latest[j] is not forced absent (it is absent
\* or the timestamp of a step-j event at or after the entrance), but it counts
\* neither for steps_completed (at most i) nor for per_step_duration[j].
C5_AbsentStepStopsDepth ==
    Evaluated =>
        \A r \in Entrances : \A i \in 1..(NumSteps - 1) :
            (/\ \A h \in 0..(i - 1) : Latest(r, h) # NULL
             /\ EarliestAtOrAfter(r.aggregation_target, i, Latest(r, i - 1)) = NULL)
                => /\ Latest(r, i) = NULL
                   /\ r.steps <= i
                   /\ \A j \in (i + 1)..(NumSteps - 1) :
                        /\ Duration(r, j) = NULL
                        /\ \/ Latest(r, j) = NULL
                           \/ /\ Latest(r, j) \in StepTimes(r.aggregation_target, j)
                              /\ Latest(r, j) >= r.latest_0

\* No step-1 event at or after the entrance, and a step-2 event after it.
C5_Witness ==
    /\ Evaluated
    /\ \E r \in Entrances :
        /\ EarliestAtOrAfter(r.aggregation_target, 1, r.latest_0) = NULL
        /\ r.latest_1 = NULL
        /\ r.latest_2 # NULL

\* ---- C6 -------------------------------------------------------------------
\* C6: an unresolved latest[i] bounds steps_completed by i, even when a later
\* latest[j] lies within W of the entrance.
C6_UnresolvedBoundsDepth ==
    Evaluated =>
        \A r \in Entrances : \A i \in 1..(NumSteps - 1) :
            Latest(r, i) = NULL => r.steps <= i

\* latest[1] is unresolved while latest[2] lies within W of the entrance.
C6_Witness ==
    /\ Evaluated
    /\ \E r \in Entrances :
        /\ r.latest_1 = NULL
        /\ WithinEntranceWindow(r, 2)

\* ---- C7 -------------------------------------------------------------------
\* C7: for every entrance, 1 <= steps_completed <= N.
C7_DepthRange ==
    Evaluated =>
        \A r \in Entrances : 1 <= r.steps /\ r.steps <= NumSteps

\* An entrance reaches the upper end N with the last step on the edge of the
\* window.
C7_Witness ==
    /\ Evaluated
    /\ \E r \in Entrances :
        /\ r.steps = NumSteps
        /\ r.latest_2 = r.latest_0 + window

\* ---- C8 -------------------------------------------------------------------
\* the entrances of actor a whose entrance timestamp truncates to period p
EntrancesIn(a, p) ==
    {k \in 1..Len(evaluated) : /\ evaluated[k].aggregation_target = a
                               /\ toStartOfDay(evaluated[k].latest_0) = p}

\* C8: the cohort row of an (actor, period) pair holds the maximum
\* steps_completed over the actor's entrances of that period.
C8_CohortHoldsMax ==
    pc = "aggregated" =>
        \A c \in cohort :
            LET G == EntrancesIn(c.aggregation_target, c.entrance_period_start)
            IN  /\ \A k \in G : evaluated[k].steps <= c.steps_completed
                /\ \E k \in G : evaluated[k].steps = c.steps_completed

\* Two entrances of one period with different depths, the later one the
\* shallower: the row holds the deeper outcome.
C8_Witness ==
    /\ pc = "aggregated"
    /\ \E c \in cohort :
        LET G == EntrancesIn(c.aggregation_target, c.entrance_period_start)
        IN  \E j, k \in G :
                /\ j < k
                /\ evaluated[j].steps > evaluated[k].steps
                /\ c.steps_completed = evaluated[j].steps

\* ---- C9 -------------------------------------------------------------------
\* the (actor, period) pairs that have at least one entrance
EntrancePairs ==
    {<<evaluated[k].aggregation_target, toStartOfDay(evaluated[k].latest_0)>> :
        k \in 1..Len(evaluated)}

RowsOf(a, p) ==
    {c \in cohort : c.aggregation_target = a /\ c.entrance_period_start = p}

\* C9 as stated: exactly one cohort row for each (actor, period) pair that
\* has an entrance, none for a pair without.
C9_OneRowPerPair ==
    pc = "aggregated" =>
        \A a \in Actors, p \in Periods :
            Cardinality(RowsOf(a, p)) = IF <<a, p>> \in EntrancePairs THEN 1 ELSE 0

\* C9 amended: the cohort rows of a query are those of the queried entrance
\* period: exactly one row for each actor that has an entrance in that
\* period, and no row for any other (actor, period) pair.
C9_OneRowPerActorOfPeriod ==
    pc = "aggregated" =>
        \A a \in Actors, p \in Periods :
            Cardinality(RowsOf(a, p)) =
                IF p = period /\ <<a, p>> \in EntrancePairs THEN 1 ELSE 0

\* One actor enters twice in the queried period, the other actor enters in
\* another period only.
C9_Witness ==
    /\ pc = "aggregated"
    /\ \E a, b \in Actors :
        /\ Cardinality(EntrancesIn(a, period)) = 2
        /\ Cardinality(RowsOf(a, period)) = 1
        /\ EntrancesIn(b, period) = {}
        /\ \E p \in Periods : EntrancesIn(b, p) # {}

\* ---- C10 ------------------------------------------------------------------
\* the step-0 events of actor a at timestamp t
EntranceEvents(a, t) ==
    {k \in 1..Len(events) : /\ events[k].actor = a
                            /\ events[k].timestamp = t
                            /\ events[k].event = StepName(0)}

EvaluationsAt(a, t) ==
    {k \in 1..Len(evaluated) : /\ evaluated[k].aggregation_target = a
                               /\ evaluated[k].latest_0 = t}

\* C10: every step-0 event yields exactly one evaluation anchored at its
\* timestamp, other events yield none; m step-0 events give m evaluations.
C10_OneEvaluationPerEntrance ==
    Evaluated =>
        /\ \A a \in Actors, t \in Timestamps \cup {NULL} :
            Cardinality(EvaluationsAt(a, t)) = Cardinality(EntranceEvents(a, t))
        /\ \A k \in 1..Len(evaluated) : evaluated[k].latest_0 = evaluated[k].timestamp

\* An actor with two step-0 events and an event of another step.
C10_Witness ==
    /\ Evaluated
    /\ \E a \in Actors :
        /\ Cardinality(UNION {EntranceEvents(a, t) : t \in Timestamps}) = 2
        /\ Cardinality(UNION {EvaluationsAt(a, t) : t \in Timestamps}) = 2
        /\ StepTimes(a, 1) # {}

\* ---- C11 ------------------------------------------------------------------
\* the actors returned by the actor_id subquery
SelectedActors == {selected[k] : k \in 1..Len(selected)}

\* the depth K of an "at least" query; N when no target step is given
AtLeastK == IF predicate.kind = "no_to_step" THEN NumSteps ELSE predicate.lo

\* C11: an "at least K" query on period P selects exactly the actors that
\* have a cohort row for P with steps_completed >= K; K = N when no target
\* step is given.
C11_AtLeastSelection ==
    (pc = "selected" /\ predicate.kind \in {"at_least", "no_to_step"}) =>
        \A a \in Actors :
            a \in SelectedActors
                <=> \E c \in RowsOf(a, period) : c.steps_completed >= AtLeastK

\* "at least 2": one actor is selected with depth exactly 2, another has a
\* cohort row of depth 1 and is left out.
C11_Witness ==
    /\ pc = "selected"
    /\ predicate.kind = "at_least"
    /\ predicate.lo = 2
    /\ \E a, b \in Actors :
        /\ a \in SelectedActors
        /\ \E c \in RowsOf(a, period) : c.steps_completed = 2
        /\ b \notin SelectedActors
        /\ \E c \in RowsOf(b, period) : c.steps_completed = 1

\* ---- C12 ------------------------------------------------------------------
\* C12: a drop-off query [lo, hi) on period P selects exactly the actors that
\* have a cohort row for P with lo <= steps_completed < hi.
C12_DropOffSelection ==
    (pc = "selected" /\ predicate.kind = "drop_off") =>
        \A a \in Actors :
            a \in SelectedActors
                <=> \E c \in RowsOf(a, period) :
                        predicate.lo <= c.steps_completed /\ c.steps_completed < predicate.hi

\* One actor sits on the lower bound and is selected, another sits on the
\* upper bound and is left out.
C12_Witness ==
    /\ pc = "selected"
    /\ predicate.kind = "drop_off"
    /\ \E a, b \in Actors :
        /\ a \in SelectedActors
        /\ \E c \in RowsOf(a, period) : c.steps_completed = predicate.lo
        /\ b \notin SelectedActors
        /\ \E c \in RowsOf(b, period) : c.steps_completed = predicate.hi

\* ---- C13 ------------------------------------------------------------------
\* C13: for a fixed entrance and two windows W1 <= W2, steps_completed under
\* W2 is at least steps_completed under W1 (W1 is the window of this run, W2
\* that of a second evaluation of the same resolved rows).
C13_WiderWindowNeverLowers ==
    pc = "evaluated" =>
        \A W2 \in Windows :
            window <= W2 =>
                LET wider == Evaluate(rows, W2)
                IN  \A k \in 1..Len(evaluated) : wider[k].steps >= evaluated[k].steps

\* Widening the window raises the depth of an entrance.
C13_Witness ==
    /\ Evaluated
    /\ \E W2 \in Windows :
        /\ window < W2
        /\ \E k \in 1..Len(evaluated) : Evaluate(rows, W2)[k].steps > evaluated[k].steps

\* ---- C14 ------------------------------------------------------------------
\* C14: the latest[i] values of every entrance are the same for every
\* conversion window: a run with window W2 on the same events gives the
\* latest arrays of this run.
C14_LatestIndependentOfWindow ==
    pc = "evaluated" =>
        \A W2 \in Windows :
            LET other == Evaluate(rows, W2)
            IN  /\ Len(other) = Len(evaluated)
                /\ \A k \in 1..Len(evaluated) :
                        LET o == other[k]
                        IN  \A i \in 0..(NumSteps - 1) :
                                Latest(o, i) = Latest(evaluated[k], i)

\* An entrance keeps a latest[1] that lies outside the window of the run.
C14_Witness ==
    /\ Evaluated
    /\ \E r \in Entrances :
        /\ r.latest_1 # NULL
        /\ r.latest_1 > r.latest_0 + window
        /\ r.steps = 1

\* ---- C15 ------------------------------------------------------------------
\* the tables a second read of the same events can present to the window
\* functions: the same rows, with rows of equal timestamp in any order
SameEvents(ev1, ev2) ==
    /\ Len(ev1) = Len(ev2)
    /\ \E f \in [1..Len(ev1) -> 1..Len(ev1)] :
        /\ \A j, k \in 1..Len(ev1) : j # k => f[j] # f[k]
        /\ \A k \in 1..Len(ev1) : ev2[k] = ev1[f[k]]

Rereads(ev) == {ev2 \in EventTables : SameEvents(ev, ev2)}

\* C15: a second run on the same events and the same configuration yields
\* the same set of cohort rows.
C15_RerunSameCohort ==
    pc = "aggregated" =>
        \A ev2 \in Rereads(events) :
            Aggregate(Evaluate(Resolve(ev2), window), period) = cohort

\* ---- C17 ------------------------------------------------------------------
\* the rows of actor a in a table, and the events of actor a
OnlyActor(tbl, a) == SelectSeq(tbl, LAMBDA r : r.aggregation_target = a)

EventsOf(a) == SelectSeq(events, LAMBDA e : e.actor = a)

\* C17: the latest values, steps_completed and cohort rows of an actor are
\* those of a run on that actor's events alone, whatever the events of the
\* other actors are.
C17_ActorIndependence ==
    \A a \in Actors :
        /\ pc = "resolved" => OnlyActor(rows, a) = Resolve(EventsOf(a))
        /\ pc = "evaluated" => OnlyActor(evaluated, a) = Evaluate(OnlyActor(rows, a), window)
        /\ pc = "aggregated" =>
                {c \in cohort : c.aggregation_target = a}
                    = Aggregate(OnlyActor(evaluated, a), period)

\* An entrance of one actor has no step 1 although another actor has a
\* step-1 event at or after it.
C17_Witness ==
    /\ pc = "aggregated"
    /\ \E r \in Entrances : \E b \in Actors \ {r.aggregation_target} :
        /\ r.latest_1 = NULL
        /\ \E u \in StepTimes(b, 1) : u >= r.latest_0
        /\ RowsOf(b, period) # {}

\* ---- C16 ------------------------------------------------------------------
\* Merge of two partial cohort sets: max of steps_completed per
\* (actor, period) key.
MergeKeys(c1, c2) ==
    {<<c.aggregation_target, c.entrance_period_start>> : c \in c1 \cup c2}

Merge(c1, c2) ==
    {[aggregation_target |-> key[1],
      entrance_period_start |-> key[2],
      steps_completed |->
        MaxOf({c.steps_completed :
                c \in {d \in c1 \cup c2 : /\ d.aggregation_target = key[1]
                                         /\ d.entrance_period_start = key[2]}})] :
        key \in MergeKeys(c1, c2)}

Workers == {"w1", "w2", "w3"}

\* the evaluated entrances handed to worker w under assignment f
PartOf(f, w) ==
    LET ix == AscendingSeq({k \in 1..Len(evaluated) : f[k] = w})
    IN  [j \in 1..Len(ix) |-> evaluated[ix[j]]]

\* the partial cohort set of worker w
Partial(f, w) == Aggregate(PartOf(f, w), period)

\* C16: however the entrances are spread over the workers, and in whatever
\* order and grouping the partial cohort sets are merged, the merged set is
\* the cohort set of the single aggregation.  (f ranges over every
\* assignment, so merging w1, w2, w3 in this order covers every order of the
\* same partial sets.)
C16_MergeOrderIrrelevant ==
    pc = "aggregated" =>
        \A f \in [1..Len(evaluated) -> Workers] :
            LET part == [w \in Workers |-> Partial(f, w)]
            IN  /\ Merge(Merge(part["w1"], part["w2"]), part["w3"]) = cohort
                /\ Merge(part["w1"], Merge(part["w2"], part["w3"])) = cohort
                /\ Merge(part["w2"], part["w1"]) = Merge(part["w1"], part["w2"])

\* Two entrances of one (actor, period) group have different depths, so the
\* partial sets of two workers disagree on the group.
C16_Witness ==
    /\ pc = "aggregated"
    /\ \E j, k \in 1..Len(evaluated) :
        /\ evaluated[j].aggregation_target = evaluated[k].aggregation_target
        /\ toStartOfDay(evaluated[j].timestamp) = period
        /\ toStartOfDay(evaluated[k].timestamp) = period
        /\ evaluated[j].steps < evaluated[k].steps
        /\ \E c \in cohort : c.steps_completed = evaluated[k].steps

\* ---- C18 ------------------------------------------------------------------
\* the depth predicate pred holds of depth n
DepthHolds(pred, n) ==
    CASE pred.kind = "at_least" -> n >= pred.lo
      [] pred.kind = "drop_off" -> pred.lo <= n /\ n < pred.hi
      [] pred.kind = "no_to_step" -> n >= NumSteps

\* the best depth over all the entrances of actor a in period p
FullMax(a, p) == MaxOf({evaluated[k].steps : k \in EntrancesIn(a, p)})

\* C18: the depth predicate is evaluated only once the aggregation is
\* complete: every step that produces the selection starts from the
\* aggregated state, and an actor is selected exactly when the maximum over
\* all of its entrances of the period satisfies the predicate.
C18_SelectionAfterAggregation ==
    [][pc' = "selected" =>
        /\ pc = "aggregated"
        /\ \A a \in Actors :
            (\E k \in 1..Len(selected') : selected'[k] = a)
                <=> /\ EntrancesIn(a, period) # {}
                    /\ DepthHolds(predicate', FullMax(a, period))]_vars

\* A drop-off query rejects an actor whose first entrance of the period lies
\* inside the bounds and whose later entrance raises the maximum out of them.
C18_Witness ==
    /\ pc = "selected"
    /\ predicate.kind = "drop_off"
    /\ \E a \in Actors : \E j, k \in EntrancesIn(a, period) :
        /\ j < k
        /\ DepthHolds(predicate, evaluated[j].steps)
        /\ ~DepthHolds(predicate, evaluated[k].steps)
        /\ evaluated[k].steps = FullMax(a, period)
        /\ a \notin SelectedActors

\* ---- C19 ------------------------------------------------------------------
\* C19: the returned rows are ordered by creation time descending, and rows
\* of equal creation time by actor id, so that the input fixes the order.
C19_OrderDetermined ==
    pc \in {"ordered", "returned"} =>
        \A j, k \in 1..Len(result) :
            j < k =>
                \/ result[j].created_at > result[k].created_at
                \/ /\ result[j].created_at = result[k].created_at
                   /\ result[j].id < result[k].id

\* ---- C20 ------------------------------------------------------------------
\* C20: the returned rows are the first rows of the ordered result, from
\* offset 0 and at most 101 of them, and the marker "more rows exist" is set
\* exactly when more than 100 actors qualify.
C20_PageAndLookahead ==
    [][pc' = "returned" =>
        /\ Len(result') <= 101
        /\ Len(result') = Min2(Len(result), 101)
        /\ result' = SubSeq(result, 1, Len(result'))
        /\ has_more' <=> Cardinality(joined) > 100]_vars

\* 102 actors qualify: 101 rows come back and the marker is set.
C20_Witness ==
    /\ pc = "returned"
    /\ Cardinality(joined) > 101
    /\ Len(result) = 101
    /\ has_more

\* ---- C21 ------------------------------------------------------------------
\* C21: on the two-actor scenario with the 14-day window, the "at least 2"
\* query for the day of t0 returns actor A (1) and not actor B (2), and the
\* drop-off query [1, 3) for that day returns B and not A.
C21_ScenarioSelection ==
    (/\ pc = "selected"
     /\ window = toIntervalDay(14)
     /\ period = toStartOfDay(events[1].timestamp))
        => /\ predicate = [kind |-> "at_least", lo |-> 2, hi |-> 0] => selected = <<1>>
           /\ predicate = [kind |-> "drop_off", lo |-> 1, hi |-> 3] => selected = <<2>>

\* The drop-off query has run with B's late step-two event in range.
C21_Witness ==
    /\ pc = "selected"
    /\ window = toIntervalDay(14)
    /\ period = toStartOfDay(events[1].timestamp)
    /\ Len(events) = 5
    /\ predicate = [kind |-> "drop_off", lo |-> 1, hi |-> 3]
    /\ selected = <<2>>

DepthAndLatest(r) ==
    [aggregation_target |-> r.aggregation_target,
     timestamp |-> r.timestamp,
     steps |-> r.steps,
     latest |-> <<r.latest_0, r.latest_1, r.latest_2>>]

\* C23: steps_completed and the latest values of every entrance are the same
\* for every order in which events of equal timestamp are presented.
C23_TieOrderIrrelevant ==
    pc = "evaluated" =>
        \A ev2 \in Rereads(events) :
            LET other == Evaluate(Resolve(ev2), window)
            IN  {DepthAndLatest(other[k]) : k \in 1..Len(other)}
                    = {DepthAndLatest(r) : r \in Entrances}

C25_DepthImpliesDuration ==
    pc = "evaluated" =>
        \A r \in Entrances : \A i \in 1..(NumSteps - 1) :
            r.steps >= i + 1 =>
                /\ Duration(r, i) # NULL
                /\ Duration(r, i) >= 0

\* An entrance reaches step 1 at the very end of its window.
C25_Witness ==
    /\ pc = "evaluated"
    /\ window > 0
    /\ \E r \in Entrances :
        /\ r.steps = 2
        /\ r.latest_1 = r.latest_0 + window
        /\ Duration(r, 1) = window

\* ---- C26 ------------------------------------------------------------------
\* the events without the entrances (step-0 events) of periods other than p
WithoutOtherEntrances(p) ==
    SelectSeq(events, LAMBDA e : ~(e.event = StepName(0) /\ toStartOfDay(e.timestamp) # p))

\* the step-0 events of actor a in period p
EntranceEventsIn(a, p) ==
    {k \in 1..Len(events) : /\ events[k].actor = a
                            /\ events[k].event = StepName(0)
                            /\ toStartOfDay(events[k].timestamp) = p}

\* C26: an entrance is credited to the period of its entrance timestamp
\* only: the cohort of the queried period has rows of that period alone, a
\* row for exactly the actors with an entrance event in it (later-step
\* events of the period create none), holding the best depth of those
\* entrances wherever the later steps fall, and the entrances of the other
\* periods do not change it.
C26_CreditedToEntrancePeriod ==
    pc = "aggregated" =>
        /\ \A c \in cohort : c.entrance_period_start = period
        /\ \A a \in Actors :
            /\ RowsOf(a, period) # {} <=> EntranceEventsIn(a, period) # {}
            /\ \A c \in RowsOf(a, period) : c.steps_completed = FullMax(a, period)
        /\ WithoutOtherEntrances(period) # events =>
                cohort = Aggregate(Evaluate(Resolve(WithoutOtherEntrances(period)), window),
                                   period)

\* An entrance of the queried period reaches depth 2 through a step-1 event
\* that falls in a later period.
C26_Witness ==
    /\ pc = "aggregated"
    /\ \E c \in cohort : c.steps_completed = 2
    /\ \E k \in 1..Len(evaluated) :
        /\ toStartOfDay(evaluated[k].latest_0) = period
        /\ evaluated[k].steps = 2
        /\ toStartOfDay(evaluated[k].latest_1) > period
        /\ EntranceEventsIn(evaluated[k].aggregation_target,
                            toStartOfDay(evaluated[k].latest_1)) = {}

\* ---- C27 ------------------------------------------------------------------
\* the actors a query with depth predicate pred returns on the cohort
ActorsOf(pred) ==
    LET sel == SelectActors(cohort, pred)
    IN  {sel[k] : k \in 1..Len(sel)}

\* the query that complements the one that has run: drop-off [1, K) for
\* "at least K", "at least K" for drop-off [1, K)
Complement(pred) ==
    IF pred.kind = "at_least"
    THEN [kind |-> "drop_off", lo |-> 1, hi |-> pred.lo]
    ELSE [kind |-> "at_least", lo |-> pred.hi, hi |-> 0]

\* C27: for the queried period and any K in 2..N, the actors selected by
\* "at least K" and those selected by drop-off [1, K) are disjoint, and
\* together they are the actors that have a cohort row.
C27_AtLeastAndDropOffPartition ==
    (/\ pc = "selected"
     /\ \/ predicate.kind = "at_least" /\ predicate.lo >= 2
        \/ predicate.kind = "drop_off" /\ predicate.lo = 1)
        => /\ SelectedActors \cap ActorsOf(Complement(predicate)) = {}
           /\ SelectedActors \cup ActorsOf(Complement(predicate))
                = {c.aggregation_target : c \in cohort}

\* "At least 2" has run and takes one of the two actors of the cohort, the
\* drop-off [1, 2) the other.
C27_Witness ==
    /\ pc = "selected"
    /\ predicate = [kind |-> "at_least", lo |-> 2, hi |-> 0]
    /\ Cardinality(SelectedActors) = 1
    /\ Cardinality(ActorsOf(Complement(predicate))) = 1

\* ---- C28 ------------------------------------------------------------------
\* C28: the step that submits the form leaves it closed with its fields at
\* their defaults, and no outcome of a POST (ok, not ok, thrown) changes
\* isSupportFormOpen or the fields.
C28_SubmitClosesWhateverThePost ==
    [][/\ Len(inflight') > Len(inflight) =>
            /\ isSupportFormOpen' = FALSE
            /\ sendSupportRequest' = FormDefaults
       /\ Len(inflight') < Len(inflight) =>
            /\ isSupportFormOpen' = isSupportFormOpen
            /\ sendSupportRequest' = sendSupportRequest]_vars

\* The POST of a submitted ticket has failed; the form is closed and reset.
C28_Witness ==
    /\ toast = "error"
    /\ inflight = <<>>
    /\ isSupportFormOpen = FALSE
    /\ sendSupportRequest = FormDefaults

\* ---- C29 ------------------------------------------------------------------
\* C29: when urlToAction runs with the form closed on the hash
\* panel=support:<kind>:<area>:<severity> and <area> is an option value of
\* TARGET_AREA_TO_NAME, the form opens with target_area = <area>.
C29_AreaRoundTrips ==
    [][(/\ urlPending
        /\ ~urlPending'
        /\ ~isSupportFormOpen
        /\ Len(hashParams.panel) = 4
        /\ hashParams.panel[1] = "support"
        /\ hashParams.panel[3] \in TargetAreaValues)
            => /\ isSupportFormOpen'
               /\ sendSupportRequest'.target_area = hashParams.panel[3]]_vars

\* ---- C30 ------------------------------------------------------------------
EffectsAtRest == effects = <<>> /\ updates = NoUpdates

\* C30: from every first render, filters with undefined actions or events
\* included, the two effects come to rest, and at rest filters.actions and
\* filters.events deep-equal those of localFilters, so that neither effect
\* issues another update.
C30_EffectsConverge ==
    /\ [](EffectsAtRest => ~OutOfSync(filters, localFilters))
    /\ (~EffectsAtRest) ~> EffectsAtRest

\* at rest after a first render with actions and events undefined: filters
\* holds the arrays effect 1 took from the first localFilters, localFilters
\* the ones effect 2 built
C30_Witness ==
    /\ EffectsAtRest
    /\ ~OutOfSync(filters, localFilters)
    /\ localFilters.new_entity
    /\ filters.actions = Array(3, <<>>)
    /\ filters.events = Array(4, <<>>)
    /\ localFilters.actions = Array(1, <<>>)
    /\ localFilters.events = Array(2, <<>>)

====
